---- MODULE Spec2Model ----
(***************************************************************************)
(* Model of ContinuousMessagePlugin (src/main.py): the private-message     *)
(* debounce handler handle_private_msg, its closures process_message,      *)
(* collect_messages and send_to_llm, and the collaborators they call       *)
(* (session waiter, provider, persona manager, conversation manager).      *)
(*                                                                         *)
(* Strings are sequences of one-character strings, so that strip, join and *)
(* startswith are computed and not assumed.  One conversation is modelled: *)
(* every event carries the same unified_msg_origin.                        *)
(***************************************************************************)
EXTENDS Integers, Sequences, FiniteSets, TLC

VARIABLES
    enable_plugin,   \* self.enable_plugin           (main.py:46)
    debounce_time,   \* self.debounce_time, in ticks (main.py:44)
    delivered,       \* the number of inbound events so far
    released,        \* the events that no session handled, in arrival order
    sessions,        \* one record per run of handle_private_msg that reached line 156
    conv             \* the conversation manager's record of this conversation

vars == <<enable_plugin, debounce_time, delivered, released, sessions, conv>>

(***************************************************************************)
(* Bounds of the model.                                                    *)
(***************************************************************************)
MaxEvents == 3       \* inbound events in one behaviour
MaxSessions == 2     \* runs of handle_private_msg that start a session
Window == 2          \* the default debounce_time (main.py:44), in ticks

(***************************************************************************)
(* Strings.                                                                *)
(***************************************************************************)
S(c) == <<c>>

IsSpace(c) == c \in {" ", "\n"}

RECURSIVE LStrip(_)
LStrip(s) == IF s # <<>> /\ IsSpace(Head(s)) THEN LStrip(Tail(s)) ELSE s

RECURSIVE RStrip(_)
RStrip(s) ==
    IF s # <<>> /\ IsSpace(s[Len(s)]) THEN RStrip(SubSeq(s, 1, Len(s) - 1)) ELSE s

\* str.strip()
Strip(s) == RStrip(LStrip(s))

\* str.startswith(prefix)
StartsWith(s, prefix) ==
    /\ Len(prefix) <= Len(s)
    /\ SubSeq(s, 1, Len(prefix)) = prefix

\* separator.join(parts)
RECURSIVE Join(_, _)
Join(parts, sep) ==
    IF parts = <<>> THEN <<>>
    ELSE IF Len(parts) = 1 THEN parts[1]
    ELSE parts[1] \o sep \o Join(Tail(parts), sep)

(***************************************************************************)
(* Configuration (main.py:44-47).                                          *)
(***************************************************************************)
command_prefixes == << S("/") >>
merge_separator == S("\n")
ImagePlaceholder == S("[img]")              \* the literal appended at line 228
NoValidResponse == S("NO_VALID_RESPONSE")   \* the literal replied at line 402
InternalError == S("INTERNAL_ERROR")        \* the reply built at line 407

\* is_command (main.py:52-69)
is_command(message) ==
    LET m == Strip(message)
    IN  /\ m # <<>>
        /\ \E i \in 1..Len(command_prefixes) : StartsWith(m, command_prefixes[i])

(***************************************************************************)
(* Inbound messages: ev.message_obj.message is a sequence of components,   *)
(* ev.message_str the flattened string.  A Plain component whose text is   *)
(* None makes `text += component.text` raise inside the try blocks.        *)
(***************************************************************************)
Plain(t) == [kind |-> "Plain", text |-> t, ref |-> "-"]
PlainNone == [kind |-> "PlainNone", text |-> <<>>, ref |-> "-"]
Image(u) == [kind |-> "Image", text |-> <<>>, ref |-> u]
Msg(segs, str) == [message |-> segs, message_str |-> str]

TxtA == Msg(<< Plain(<<" ">>), Plain(<<"a">>) >>, <<"a">>)
TxtB == Msg(<<>>, <<"b", "\n">>)
Cmd == Msg(<< Plain(<<" ", "/", "a">>) >>, <<"a">>)
CmdImg == Msg(<< Image("u2"), Plain(<<"/", "b">>) >>, <<"b">>)
Empty == Msg(<< Plain(<<" ">>) >>, <<>>)
Img == Msg(<< Image("u1") >>, <<>>)
Malformed == Msg(<< Image("u1"), PlainNone, Plain(<<"a">>) >>, <<>>)

Messages == {TxtA, TxtB, Cmd, CmdImg, Empty, Img, Malformed}

\* The component loop of process_message (main.py:171-199): the exception
\* handler at line 198 ends the loop and keeps what was read before it.
RECURSIVE ExtractLoop(_, _, _)
ExtractLoop(segs, i, acc) ==
    IF i > Len(segs) THEN acc
    ELSE LET c == segs[i]
         IN  IF c.kind = "PlainNone" THEN acc
             ELSE ExtractLoop(segs, i + 1,
                    [text |-> IF c.kind = "Plain" THEN acc.text \o c.text ELSE acc.text,
                     has_image |-> acc.has_image \/ c.kind = "Image",
                     urls |-> IF c.kind = "Image" THEN Append(acc.urls, c.ref)
                              ELSE acc.urls])

Extract(ev) ==
    ExtractLoop(ev.message, 1, [text |-> <<>>, has_image |-> FALSE, urls |-> <<>>])

\* The text of an event as all three extraction blocks compute it
\* (main.py:105-138, 168-205, 246-265).
extract_text(ev) ==
    LET text == Extract(ev).text
    IN  IF text = <<>> THEN Strip(ev.message_str) ELSE Strip(text)

\* The two early returns of process_message (main.py:207-213).
Rejected_NoCommandCheck(text, has_image) == text = <<>> /\ ~has_image

Rejected_NoEmptyCheck(text, has_image) == text # <<>> /\ is_command(text)

Rejected(text, has_image) ==
    \/ (text = <<>> /\ ~has_image)
    \/ (text # <<>> /\ is_command(text))

\* Whether process_message calls ev.stop_event() (main.py:220): only on the
\* path past both early returns.
StopsEvent_BeforeChecks(rejected) == TRUE

StopsEvent(rejected) == ~rejected

\* What process_message appends to the buffer (main.py:222-228).
Fragments_NoPlaceholder(text, has_image) ==
    IF text # <<>> THEN << text >> ELSE <<>>

Fragments(text, has_image) ==
    IF text # <<>> THEN << text >>
    ELSE IF has_image THEN << ImagePlaceholder >>
    ELSE <<>>

\* process_message (main.py:163-230) on the closure's buffer and image_urls:
\* the image references are appended inside the component loop, before the
\* message is classified.
process_message(ev, buffer, image_urls) ==
    LET e == Extract(ev)
        text == extract_text(ev)
        rejected == Rejected(text, e.has_image)
    IN  [ok |-> ~rejected,
         stop_event |-> StopsEvent(rejected),
         buffer |-> IF rejected THEN buffer
                    ELSE buffer \o Fragments(text, e.has_image),
         image_urls |-> image_urls \o e.urls]

\* self.merge_separator.join(buffer).strip() (main.py:373, 386)
merged_message(buffer) == Strip(Join(buffer, merge_separator))

(***************************************************************************)
(* Provider responses and _extract_response_text (main.py:71-86).          *)
(* attrs are completion_text, result, content, text, message; an empty     *)
(* sequence stands for an attribute that is absent, None, empty or no str. *)
(***************************************************************************)
Response(attrs, str) == [attrs |-> attrs, str |-> str]
RespText == Response(<< <<>>, <<"r">>, <<"x">>, <<>>, <<>> >>, <<"o">>)
RespRepr == Response(<< <<>>, <<>>, <<>>, <<>>, <<>> >>, <<"o">>)
RespEmpty == Response(<< <<>>, <<>>, <<>>, <<>>, <<>> >>, <<>>)
Responses == {RespText, RespRepr, RespEmpty}

RECURSIVE ProbeAttrs(_, _)
ProbeAttrs(response, i) ==
    IF i > Len(response.attrs) THEN response.str
    ELSE IF response.attrs[i] # <<>> THEN response.attrs[i]
    ELSE ProbeAttrs(response, i + 1)

_extract_response_text(response) == ProbeAttrs(response, 1)

PersonaPrompt == <<"p">>
NoPrompt == <<>>        \* system_prompt = None

(***************************************************************************)
(* State.                                                                  *)
(*   released    = the events handle_private_msg returned on before line   *)
(*                 156, each [msg, stopped, accepted].                     *)
(*   sessions[s] = the locals of the s-th run of handle_private_msg that   *)
(*                 got past line 154, the position of that run, and in     *)
(*                 log the events its closures handled: for each the       *)
(*                 message, whether the plugin called stop_event() on it   *)
(*                 and whether process_message returned True for it.       *)
(*   conv        = [exists, history]: the conversation of this origin in   *)
(*                 the conversation manager.                               *)
(***************************************************************************)
Event(m, stopped, accepted) == [msg |-> m, stopped |-> stopped, accepted |-> accepted]

Entry(role, content) == [role |-> role, content |-> content]
OldHistory == << Entry("user", <<"q">>), Entry("assistant", <<"k">>) >>

NewSession(m, pm) ==
    [pc |-> "collecting",            \* awaiting collect_messages (line 367)
     outcome |-> "none",             \* "stopped" (line 368) or "timeout" (line 384)
     first |-> delivered + 1,        \* the number of `event` among the inbound events
     log |-> << Event(m, pm.stop_event, TRUE) >>,
     buffer |-> pm.buffer,
     image_urls |-> pm.image_urls,
     timer |-> debounce_time,        \* ticks left before the session waiter times out
     idle |-> 0,                     \* ticks since process_message last returned True
     age |-> 0,                      \* ticks since the session waiter was started
     merged |-> <<>>,
     provider |-> FALSE,             \* get_using_provider returned a provider
     raised |-> FALSE,               \* get_using_provider raised (line 292)
     system_prompt |-> NoPrompt,
     persona_failed |-> FALSE,
     context_history |-> <<>>,
     history_failed |-> FALSE,
     cid_bound |-> FALSE,            \* conv_mgr and curr_cid are bound (lines 315-316)
     created |-> FALSE,              \* get_conversation created the conversation
     response_text |-> <<>>,
     chat_failed |-> FALSE,
     calls |-> <<>>,                 \* the text_chat calls made
     updates |-> <<>>,               \* the update_conversation calls made
     persisted |-> FALSE,            \* update_conversation succeeded
     replies |-> <<>>]               \* the results yielded

\* Once handle_private_msg has returned its locals are gone: the record of a
\* finished run is kept for one state and dropped by the next step.
Closed == [pc |-> "closed"]
Live == [s \in 1..Len(sessions) |->
            IF sessions[s].pc = "done" THEN Closed ELSE sessions[s]]

Waiting(s) == sessions[s].pc \in {"collecting", "stopped", "timedout"}

\* The registration keyed by something no later event matches.
ActiveSession_Unregistered == CHOOSE s \in {0} : TRUE

\* The session that `await collect_messages(event)` registered with the session
\* waiter for this conversation (main.py:238, 367), or 0: the waiter hands it
\* the conversation's events until it is stopped or times out.
ActiveSession ==
    IF \E s \in 1..Len(sessions) : Waiting(s)
    THEN CHOOSE s \in 1..Len(sessions) : Waiting(s)
    ELSE 0

Init ==
    /\ enable_plugin \in BOOLEAN
    /\ debounce_time \in {0, Window}
    /\ delivered = 0
    /\ released = <<>>
    /\ sessions = <<>>
    /\ conv \in {[exists |-> FALSE, history |-> <<>>],
                 [exists |-> TRUE, history |-> OldHistory]}

\* controller.keep(timeout=self.debounce_time, reset_timeout=True)
\* (main.py:272, 283): the time left on the session waiter's timer afterwards.
keep_NoReset(timer) == timer

keep(timer) == debounce_time

\* The check at main.py:153.
DebounceDisabled_Negative == debounce_time < 0

DebounceDisabled == debounce_time <= 0

\* handle_private_msg up to `await collect_messages(event)` (main.py:89-367),
\* for an event of a conversation with no waiting session.
handle_private_msg(m) ==
    LET e == Extract(m)
        raw_text == extract_text(m)
        \* the returns at lines 100-154, before process_message is called
        early == \/ ~enable_plugin
                 \/ (raw_text = <<>> /\ ~e.has_image)
                 \/ (raw_text # <<>> /\ is_command(raw_text))
                 \/ DebounceDisabled
        pm == process_message(m, <<>>, <<>>)
        starts == ~early /\ pm.ok
    IN  /\ delivered < MaxEvents
        /\ ActiveSession = 0
        /\ starts => Len(sessions) < MaxSessions
        /\ delivered' = delivered + 1
        /\ IF starts
           THEN /\ sessions' = Append(Live, NewSession(m, pm))
                /\ UNCHANGED released
           ELSE /\ released' = Append(released,
                                      Event(m, ~early /\ pm.stop_event, FALSE))
                /\ sessions' = Live
        /\ UNCHANGED <<enable_plugin, debounce_time, conv>>

\* collect_messages (main.py:239-283): the session waiter hands the next
\* event of the conversation to the waiting session.
collect_messages(m) ==
    LET s == ActiveSession
        ss == sessions[s]
        text == extract_text(m)
        pm == process_message(m, ss.buffer, ss.image_urls)
    IN  /\ delivered < MaxEvents
        /\ s # 0
        /\ ss.pc = "collecting"
        /\ delivered' = delivered + 1
        /\ IF Len(ss.buffer) = 1 /\ text = ss.buffer[1]
           THEN \* lines 269-273: keep(reset_timeout=True) and return
                sessions' = [Live EXCEPT
                      ![s].log = Append(ss.log, Event(m, FALSE, FALSE)),
                      ![s].timer = keep(ss.timer)]
           ELSE IF ~pm.ok
           THEN \* lines 276-280
                sessions' = [Live EXCEPT
                      ![s].log = Append(ss.log, Event(m, pm.stop_event, FALSE)),
                      ![s].image_urls = pm.image_urls,
                      ![s].pc = IF text # <<>> /\ is_command(text)
                                THEN "stopped" ELSE "collecting"]
           ELSE \* line 283
                sessions' = [Live EXCEPT
                      ![s].log = Append(ss.log, Event(m, pm.stop_event, TRUE)),
                      ![s].buffer = pm.buffer,
                      ![s].image_urls = pm.image_urls,
                      ![s].timer = keep(ss.timer),
                      ![s].idle = 0]
        /\ UNCHANGED <<enable_plugin, debounce_time, released, conv>>

\* One tick of the clock while a session waits on its timer.
Tick ==
    LET s == ActiveSession
    IN  /\ s # 0
        /\ sessions[s].pc = "collecting"
        /\ sessions[s].timer > 0
        /\ sessions' = [Live EXCEPT ![s].timer = @ - 1, ![s].idle = @ + 1,
                                        ![s].age = @ + 1]
        /\ UNCHANGED <<enable_plugin, debounce_time, delivered, released, conv>>

\* The session waiter's timer runs out: collect_messages(event) raises
\* TimeoutError into handle_private_msg (main.py:238, 384).
TimerFires ==
    LET s == ActiveSession
    IN  /\ s # 0
        /\ sessions[s].pc = "collecting"
        /\ sessions[s].timer = 0
        /\ sessions' = [Live EXCEPT ![s].pc = "timedout"]
        /\ UNCHANGED <<enable_plugin, debounce_time, delivered, released, conv>>

(***************************************************************************)
(* The end of handle_private_msg (main.py:365-402) and send_to_llm         *)
(* (main.py:286-363), one action per await.                                *)
(***************************************************************************)
\* What handle_private_msg yields once send_to_llm has returned `result`
\* (<<>> stands for None): lines 378-379 after a stop, 399-402 after a timeout.
Yielded_OnTimeoutOnly(ss, result) ==
    IF ss.outcome = "timeout"
    THEN << IF result # <<>> THEN result ELSE NoValidResponse >>
    ELSE <<>>

Yielded(ss, result) ==
    IF ss.outcome = "timeout"
    THEN << IF result # <<>> THEN result ELSE NoValidResponse >>
    ELSE IF result # <<>> THEN << result >> ELSE <<>>

\* send_to_llm returned `result` to handle_private_msg, which runs to its end.
Finish_NeverReturns(ss, result) ==
    [ss EXCEPT !.pc = "yielding", !.replies = ss.replies \o Yielded(ss, result)]

Finish(ss, result) ==
    [ss EXCEPT !.pc = "done", !.replies = ss.replies \o Yielded(ss, result)]

\* get_using_provider raised inside send_to_llm (main.py:292).  On the stop
\* path the call is inside the try of line 365, so line 404 catches it, stops
\* the first event and yields the internal-error reply; on the timeout path
\* the call is inside the handler of line 384, which no later clause of the
\* same try covers, so the exception leaves handle_private_msg.
ProviderLookupRaised(ss) ==
    IF ss.outcome = "stopped"
    THEN [ss EXCEPT !.pc = "done", !.raised = TRUE, !.log[1].stopped = TRUE,
                    !.replies = Append(ss.replies, InternalError)]
    ELSE [ss EXCEPT !.pc = "done", !.raised = TRUE]

\* handle_private_msg resumes after `await collect_messages(event)` and runs
\* up to the first await of send_to_llm (main.py:368-377, 384-397, 288-299).
\* provider: what get_using_provider does ("some", "none" or "raise").
Resume(s, provider) ==
    LET ss == sessions[s]
        outcome == IF ss.pc = "stopped" THEN "stopped" ELSE "timeout"
        merged == merged_message(ss.buffer)
        s1 == [ss EXCEPT !.outcome = outcome, !.merged = merged,
                         !.provider = (provider = "some")]
    IN  /\ ss.pc \in {"stopped", "timedout"}
        /\ sessions' = [Live EXCEPT ![s] =
              IF merged = <<>> THEN [s1 EXCEPT !.pc = "done"]
              ELSE LET \* line 393: event.stop_event() on the first event
                       s2 == IF outcome = "timeout"
                             THEN [s1 EXCEPT !.log[1].stopped = TRUE]
                             ELSE s1
                   IN  IF provider = "some" THEN [s2 EXCEPT !.pc = "persona"]
                       ELSE IF provider = "none" THEN Finish(s2, <<>>)
                       ELSE ProviderLookupRaised(s2)]
        /\ UNCHANGED <<enable_plugin, debounce_time, delivered, released, conv>>

\* await persona_manager.get_default_persona_v3 (main.py:297-311)
FetchPersona_Aborts(s, persona) ==
    /\ sessions[s].pc = "persona"
    /\ sessions' = [Live EXCEPT ![s] =
          IF persona = "raise"
          THEN [sessions[s] EXCEPT !.pc = "done", !.persona_failed = TRUE]
          ELSE [sessions[s] EXCEPT !.pc = "history", !.system_prompt = PersonaPrompt]]
    /\ UNCHANGED <<enable_plugin, debounce_time, delivered, released, conv>>

FetchPersona(s, persona) ==
    /\ sessions[s].pc = "persona"
    /\ sessions' = [Live EXCEPT
          ![s].pc = "history",
          ![s].system_prompt = IF persona = "prompt" THEN PersonaPrompt ELSE NoPrompt,
          ![s].persona_failed = (persona = "raise")]
    /\ UNCHANGED <<enable_plugin, debounce_time, delivered, released, conv>>

\* await get_curr_conversation_id and get_conversation(create_if_not_exists=True)
\* (main.py:313-329).  "raise_cid": the first call raises, curr_cid stays
\* unbound; "raise_get": the second call or json.loads raises.
FetchHistory(s, r) ==
    /\ sessions[s].pc = "history"
    /\ r = "raise_get" => conv.exists
    /\ IF r = "ok"
       THEN /\ conv' = [conv EXCEPT !.exists = TRUE]
            /\ sessions' = [Live EXCEPT
                  ![s].pc = "chat",
                  ![s].context_history = conv.history,
                  ![s].cid_bound = TRUE,
                  ![s].created = ~conv.exists]
       ELSE /\ UNCHANGED conv
            /\ sessions' = [Live EXCEPT
                  ![s].pc = "chat",
                  ![s].context_history = <<>>,
                  ![s].history_failed = TRUE,
                  ![s].cid_bound = (r = "raise_get")]
    /\ UNCHANGED <<enable_plugin, debounce_time, delivered, released>>

\* What provider.text_chat can do: raise, or return a response.
ChatOutcomes ==
    {[raises |-> TRUE, response |-> RespEmpty]}
        \cup {[raises |-> FALSE, response |-> r] : r \in Responses}

\* provider.text_chat raised (main.py:361-363): send_to_llm logs and returns
\* None; the call is not made again.
AfterChatFailure_Retry(ss) ==
    IF Len(ss.calls) < 2 THEN [ss EXCEPT !.pc = "chat", !.chat_failed = TRUE]
    ELSE Finish([ss EXCEPT !.chat_failed = TRUE], <<>>)

AfterChatFailure(ss) == Finish([ss EXCEPT !.chat_failed = TRUE], <<>>)

\* await provider.text_chat (main.py:331-345, 361-363)
TextChat(s, r) ==
    LET ss == sessions[s]
        call == [prompt |-> ss.merged, context |-> ss.context_history,
                 system_prompt |-> ss.system_prompt, image_urls |-> ss.image_urls]
        s1 == [ss EXCEPT !.calls = Append(ss.calls, call)]
        response_text == _extract_response_text(r.response)
    IN  /\ ss.pc = "chat"
        /\ sessions' = [Live EXCEPT ![s] =
              IF r.raises THEN AfterChatFailure(s1)
              ELSE IF response_text = <<>> THEN Finish(s1, <<>>)
              ELSE [s1 EXCEPT !.pc = "update", !.response_text = response_text]]
        /\ UNCHANGED <<enable_plugin, debounce_time, delivered, released, conv>>

\* The history the update at lines 349-355 hands to update_conversation.
NewHistory(ss) ==
    ss.context_history \o << Entry("user", ss.merged),
                             Entry("assistant", ss.response_text) >>

\* What send_to_llm returns past the update (main.py:356-359).
ReturnedAfterUpdate_Propagates(ss, persisted) ==
    IF persisted THEN ss.response_text ELSE <<>>

ReturnedAfterUpdate(ss, persisted) == ss.response_text

\* await conv_mgr.update_conversation and the return of the reply
\* (main.py:347-359): with curr_cid unbound the call raises NameError, which
\* line 356 swallows like a failure of the store.
UpdateConversation(s, store_ok) ==
    LET ss == sessions[s]
        called == ss.cid_bound
        s1 == [ss EXCEPT !.updates = IF called THEN Append(ss.updates, NewHistory(ss))
                                     ELSE ss.updates,
                         !.persisted = called /\ store_ok]
    IN  /\ ss.pc = "update"
        /\ conv' = IF called /\ store_ok
                   THEN [conv EXCEPT !.history = NewHistory(ss)]
                   ELSE conv
        /\ sessions' = [Live EXCEPT ![s] =
                          Finish(s1, ReturnedAfterUpdate(ss, called /\ store_ok))]
        /\ UNCHANGED <<enable_plugin, debounce_time, delivered, released>>

\* What the collaborators can answer.
ProviderOutcomes == {"some", "none", "raise"}
PersonaOutcomes == {"prompt", "raise"}
HistoryOutcomes == {"ok", "raise_cid", "raise_get"}

\* Every step of the plugin, with the inputs and the collaborators' answers
\* drawn from the given sets.
Step(msgs, providers, personas, histories, chats, stores) ==
    \/ \E m \in msgs : handle_private_msg(m)
    \/ \E m \in msgs : collect_messages(m)
    \/ Tick
    \/ TimerFires
    \/ \E s \in 1..Len(sessions), provider \in providers : Resume(s, provider)
    \/ \E s \in 1..Len(sessions), p \in personas : FetchPersona(s, p)
    \/ \E s \in 1..Len(sessions), r \in histories : FetchHistory(s, r)
    \/ \E s \in 1..Len(sessions), r \in chats : TextChat(s, r)
    \/ \E s \in 1..Len(sessions), ok \in stores : UpdateConversation(s, ok)

\* Spec: every kind of inbound message; the provider may be absent or fail,
\* the persona and history stores answer.
Next ==
    Step(Messages, {"some", "none"}, {"prompt"}, {"ok"},
         {[raises |-> TRUE, response |-> RespEmpty],
          [raises |-> FALSE, response |-> RespText]}, {TRUE})

Spec == Init /\ [][Next]_vars

\* SpecLLM: a text, an image and a command as inbound messages; every answer
\* of every collaborator.
LLMMessages == {TxtA, Img, Cmd}

NextLLM ==
    Step(LLMMessages, ProviderOutcomes, PersonaOutcomes, HistoryOutcomes,
         ChatOutcomes, BOOLEAN)

SpecLLM == Init /\ [][NextLLM]_vars

\* SpecFair: a text and a command as inbound messages, every answer of the
\* provider lookup, a failing and an answering provider; the event loop runs
\* the session waiter's timer and resumes every awaited call.
FairMessages == {TxtA, Cmd}

NextFair ==
    Step(FairMessages, ProviderOutcomes, {"prompt"}, {"ok"},
         {[raises |-> TRUE, response |-> RespEmpty],
          [raises |-> FALSE, response |-> RespText]}, {TRUE})

Fairness ==
    /\ WF_vars(Tick)
    /\ WF_vars(TimerFires)
    /\ WF_vars(\E s \in 1..Len(sessions), p \in ProviderOutcomes : Resume(s, p))
    /\ WF_vars(\E s \in 1..Len(sessions) : FetchPersona(s, "prompt"))
    /\ WF_vars(\E s \in 1..Len(sessions) : FetchHistory(s, "ok"))
    /\ WF_vars(\E s \in 1..Len(sessions), r \in ChatOutcomes : TextChat(s, r))
    /\ WF_vars(\E s \in 1..Len(sessions) : UpdateConversation(s, TRUE))

SpecFair == Init /\ [][NextFair]_vars /\ Fairness

(***************************************************************************)
(* Vocabulary of the properties.                                           *)
(***************************************************************************)
IsCommandMsg(m) == extract_text(m) # <<>> /\ is_command(extract_text(m))
IsEmptyMsg(m) == extract_text(m) = <<>> /\ ~Extract(m).has_image
Qualifying(m) == ~IsCommandMsg(m) /\ ~IsEmptyMsg(m)
IsTextMsg(m) ==
    /\ Qualifying(m)
    /\ \A i \in 1..Len(m.message) : m.message[i].kind = "Plain"
IsImageOnlyMsg(m) == extract_text(m) = <<>> /\ Extract(m).has_image

LiveSessions == {s \in 1..Len(sessions) : sessions[s].pc # "closed"}
Collecting == {s \in LiveSessions : sessions[s].pc = "collecting"}

\* The events the closures of session s handled, in arrival order.
HandledBy(s) == sessions[s].log
AcceptedBy(s) == SelectSeq(sessions[s].log, LAMBDA e : e.accepted)
TextsOf(evs) == [i \in 1..Len(evs) |-> extract_text(evs[i].msg)]

RECURSIVE UrlsOf(_)
UrlsOf(evs) ==
    IF evs = <<>> THEN <<>> ELSE Extract(Head(evs).msg).urls \o UrlsOf(Tail(evs))

(***************************************************************************)
(* C1: for any k >= 1 non-command, non-empty text messages of one          *)
(* conversation arriving within the rolling window, the prompt handed to   *)
(* the provider at timeout is those k texts joined by the separator in     *)
(* arrival order and trimmed, every message counted once.                  *)
(***************************************************************************)
C1_MergedPromptIsJoinOfAllTexts ==
    \A s \in LiveSessions :
        ( /\ sessions[s].outcome = "timeout"
          /\ sessions[s].calls # <<>>
          /\ \A i \in 1..Len(HandledBy(s)) : IsTextMsg(HandledBy(s)[i].msg) )
        => sessions[s].calls[1].prompt
             = Strip(Join(TextsOf(HandledBy(s)), merge_separator))

(***************************************************************************)
(* C2: a command is never appended to the buffer, so it is in no merged    *)
(* prompt, and a command delivered to a collecting session ends the        *)
(* collecting at once.                                                     *)
(***************************************************************************)
C2_CommandNeverMergedAndStops ==
    \A s \in LiveSessions :
        LET ss == sessions[s]
        IN  /\ \A i \in 1..Len(ss.log) : IsCommandMsg(ss.log[i].msg) => ~ss.log[i].accepted
            /\ \A i \in 1..Len(ss.buffer) : ~is_command(ss.buffer[i])
            /\ Len(ss.buffer) = Len(AcceptedBy(s))
            /\ \A i \in 1..Len(ss.calls) : ss.calls[i].prompt = merged_message(ss.buffer)
            /\ (\E i \in 1..Len(ss.log) : IsCommandMsg(ss.log[i].msg))
                  => ss.pc # "collecting"

C2_Witness ==
    \E s \in LiveSessions :
        /\ sessions[s].pc = "stopped"
        /\ sessions[s].timer > 0
        /\ sessions[s].buffer # <<>>
        /\ IsCommandMsg(sessions[s].log[Len(sessions[s].log)].msg)

(***************************************************************************)
(* C3: the plugin never calls stop_event() on a command, whether the       *)
(* command is the first message seen or arrives during collection.         *)
(***************************************************************************)
C3_CommandEventNeverStopped ==
    /\ \A i \in 1..Len(released) :
          IsCommandMsg(released[i].msg) => ~released[i].stopped
    /\ \A s \in LiveSessions : \A i \in 1..Len(sessions[s].log) :
          IsCommandMsg(sessions[s].log[i].msg) => ~sessions[s].log[i].stopped

C3_Witness ==
    /\ \E i \in 1..Len(released) : IsCommandMsg(released[i].msg)
    /\ \E s \in LiveSessions :
          /\ sessions[s].pc = "done"
          /\ sessions[s].outcome = "stopped"
          /\ IsCommandMsg(sessions[s].log[Len(sessions[s].log)].msg)

(***************************************************************************)
(* C4: at most one session of the conversation is collecting at any time;  *)
(* a message that arrives while a session waits is handled by that session *)
(* and starts no session of its own.                                       *)
(***************************************************************************)
C4_OneCollectingSession ==
    /\ Cardinality(Collecting) <= 1
    /\ \A s \in Collecting :
          \* no session was started after s, and every event delivered since
          \* the one that started s was handled by s
          /\ s = Len(sessions)
          /\ Len(sessions[s].log) = delivered - sessions[s].first + 1

C4_Witness ==
    /\ Len(sessions) = 1
    /\ sessions[1].pc = "collecting"
    /\ delivered = 2
    /\ Len(sessions[1].log) = 2
    /\ Qualifying(sessions[1].log[1].msg) /\ Qualifying(sessions[1].log[2].msg)
    /\ sessions[1].buffer = TextsOf(sessions[1].log)

(***************************************************************************)
(* C5: with debounce_time <= 0, or with the plugin disabled, nothing is    *)
(* intercepted: no session and no buffer, no event stopped, no provider    *)
(* call and no reply.                                                      *)
(***************************************************************************)
C5_NoInterceptionWhenDisabled ==
    (~enable_plugin \/ debounce_time <= 0)
        => /\ sessions = <<>>
           /\ Len(released) = delivered
           /\ \A i \in 1..Len(released) :
                 ~released[i].stopped /\ ~released[i].accepted

C5_Witness ==
    /\ enable_plugin
    /\ debounce_time <= 0
    /\ Len(released) = MaxEvents
    /\ \A i \in 1..Len(released) : Qualifying(released[i].msg)

(***************************************************************************)
(* C6: every accepted image-only message contributes exactly one           *)
(* placeholder fragment at its arrival position, and its image reference   *)
(* to the image list in arrival order, whatever text fragments were        *)
(* accepted before and after it.                                           *)
(***************************************************************************)
C6_ImageOnlyContributesPlaceholder ==
    \A s \in LiveSessions :
        LET acc == AcceptedBy(s)
            urls == UrlsOf(acc)
        IN  /\ Len(sessions[s].buffer) = Len(acc)
            /\ \A k \in 1..Len(acc) :
                  IF IsImageOnlyMsg(acc[k].msg)
                  THEN sessions[s].buffer[k] = ImagePlaceholder
                  ELSE sessions[s].buffer[k] = extract_text(acc[k].msg)
            /\ Len(urls) <= Len(sessions[s].image_urls)
            /\ SubSeq(sessions[s].image_urls, 1, Len(urls)) = urls

C6_Witness ==
    \E s \in LiveSessions :
        LET acc == AcceptedBy(s)
        IN  /\ Len(acc) = 3
            /\ IsTextMsg(acc[1].msg)
            /\ acc[2].msg = Img
            /\ IsTextMsg(acc[3].msg)
            /\ sessions[s].buffer[2] = ImagePlaceholder
            /\ sessions[s].image_urls = << "u1" >>

(***************************************************************************)
(* C7: in every session that ends with a non-empty merged prompt, by       *)
(* timeout or by command interrupt, a failure of the primary path (no      *)
(* provider, provider call raises, empty response) produces exactly one    *)
(* user-visible reply and ends the session.                                *)
(***************************************************************************)
PrimaryPathFailed(ss) ==
    /\ ss.pc = "done"
    /\ ss.merged # <<>>
    /\ ss.response_text = <<>>

C7_FailureRepliesExactlyOnce ==
    \A s \in LiveSessions :
        PrimaryPathFailed(sessions[s]) => Len(sessions[s].replies) = 1

(***************************************************************************)
(* C8: with no provider configured, or with a failing provider call, the   *)
(* conversation store is never written for that session: no               *)
(* update_conversation call and no conversation created; a session timing  *)
(* out without a provider emits exactly one error reply.                   *)
(***************************************************************************)
C8_NoStoreWriteOnProviderFailure ==
    \A s \in LiveSessions :
        LET ss == sessions[s]
        IN  /\ (ss.pc = "done" /\ ss.merged # <<>> /\ (~ss.provider \/ ss.chat_failed))
                => /\ ss.updates = <<>>
                   /\ ~ss.created
            /\ (ss.pc = "done" /\ ss.outcome = "timeout" /\ ~ss.provider /\ ~ss.raised)
                => ss.replies = << NoValidResponse >>

(***************************************************************************)
(* C9: on a successful provider reply the user entry (merged prompt) and   *)
(* then the assistant entry (reply text) are appended to the history and   *)
(* persisted; a failure to persist is swallowed, and the reply text is     *)
(* returned and delivered to the user all the same.                        *)
(***************************************************************************)
C9_ReplyDeliveredAndHistoryAppended ==
    \A s \in LiveSessions :
        LET ss == sessions[s]
            appended == ss.context_history
                           \o << Entry("user", ss.merged),
                                 Entry("assistant", ss.response_text) >>
        IN  (ss.pc = "done" /\ ss.response_text # <<>>)
                => /\ ss.replies = << ss.response_text >>
                   /\ \A i \in 1..Len(ss.updates) : ss.updates[i] = appended
                   /\ ss.persisted => conv.history = appended

C9_Witness ==
    \E s \in LiveSessions :
        /\ sessions[s].pc = "done"
        /\ sessions[s].response_text # <<>>
        /\ sessions[s].updates # <<>>
        /\ ~sessions[s].persisted
        /\ sessions[s].replies = << sessions[s].response_text >>

(***************************************************************************)
(* C10: a message the buffer rejects (empty, or a command, with or without *)
(* an image segment) mutates nothing: neither the fragment list nor the    *)
(* accumulated image-reference list changes.                               *)
(***************************************************************************)
RejectedArrival(s) ==
    /\ sessions[s].pc = "collecting"
    /\ Len(sessions'[s].log) = Len(sessions[s].log) + 1
    /\ LET e == sessions'[s].log[Len(sessions'[s].log)]
       IN  ~e.accepted /\ ~Qualifying(e.msg)

C10_RejectedMessageMutatesNothing ==
    [][\A s \in 1..Len(sessions) :
          RejectedArrival(s)
              => /\ sessions'[s].buffer = sessions[s].buffer
                 /\ sessions'[s].image_urls = sessions[s].image_urls]_vars

(***************************************************************************)
(* Arrivals at a collecting session, for the action properties below.      *)
(***************************************************************************)
\* The step hands one more event to session s, which is collecting.
Arrival(s) ==
    /\ sessions[s].pc = "collecting"
    /\ Len(sessions'[s].log) = Len(sessions[s].log) + 1

Arrived(s) == sessions'[s].log[Len(sessions'[s].log)]

\* A message with no text and no image, read off its components.
HasNoContent(m) ==
    /\ \A i \in 1..Len(m.message) :
          m.message[i].kind = "Plain" /\ Strip(m.message[i].text) = <<>>
    /\ Strip(m.message_str) = <<>>

\* A message one of whose components makes the extraction raise.
IsMalformedMsg(m) == \E i \in 1..Len(m.message) : m.message[i].kind = "PlainNone"

(***************************************************************************)
(* C11: the timeout of a collecting session is reset only by a message     *)
(* that is accepted into the buffer: at every moment the time left is the  *)
(* debounce window minus the time since the last accepted message, so a    *)
(* delivered message that is not appended never extends the deadline.      *)
(***************************************************************************)
C11_DeadlineFollowsLastAccepted ==
    \A s \in Collecting :
        sessions[s].timer + sessions[s].idle = debounce_time

(***************************************************************************)
(* C12: every message accepted while collecting resets the timeout to the  *)
(* full debounce window and leaves the session collecting; the timeout     *)
(* fires only a full window after the last accepted message, not a window  *)
(* after the session started.                                              *)
(***************************************************************************)
C12_AcceptedMessageRestartsWindow ==
    [][\A s \in 1..Len(sessions) :
          /\ (Arrival(s) /\ Arrived(s).accepted)
                => /\ sessions'[s].timer = debounce_time
                   /\ sessions'[s].pc = "collecting"
          /\ (sessions[s].pc = "collecting" /\ sessions'[s].pc = "timedout")
                => sessions[s].idle >= debounce_time]_vars

C12_Witness ==
    \E s \in Collecting :
        /\ Len(sessions[s].log) >= 2
        /\ \A i \in 1..Len(sessions[s].log) : sessions[s].log[i].accepted
        /\ sessions[s].age > debounce_time
        /\ sessions[s].idle < debounce_time

(***************************************************************************)
(* C13: an empty message (no text, no image) delivered to a collecting     *)
(* session is ignored: buffer and image list unchanged, timeout not reset, *)
(* event not stopped, session still collecting.                            *)
(***************************************************************************)
C13_EmptyMessageIgnored ==
    [][\A s \in 1..Len(sessions) :
          (Arrival(s) /\ HasNoContent(Arrived(s).msg))
              => /\ sessions'[s].buffer = sessions[s].buffer
                 /\ sessions'[s].image_urls = sessions[s].image_urls
                 /\ sessions'[s].timer = sessions[s].timer
                 /\ sessions'[s].idle = sessions[s].idle
                 /\ sessions'[s].pc = "collecting"
                 /\ ~Arrived(s).stopped
                 /\ ~Arrived(s).accepted]_vars

C13_Witness ==
    \E s \in Collecting :
        LET n == Len(sessions[s].log)
        IN  /\ n >= 2
            /\ HasNoContent(sessions[s].log[n].msg)
            /\ ~sessions[s].log[n].stopped
            /\ sessions[s].idle > 0
            /\ sessions[s].timer < debounce_time
            /\ Len(sessions[s].buffer) = n - 1

(***************************************************************************)
(* C14: when a command interrupts a session whose buffer is non-empty, the *)
(* fragments collected so far are merged and handed to the provider        *)
(* exactly once, with the images collected, and the reply is yielded       *)
(* before handle_private_msg returns; the command's event is left          *)
(* unstopped.  The partial buffer is not discarded.                        *)
(***************************************************************************)
C14_CommandInterruptFlushesBuffer ==
    \A s \in LiveSessions :
        LET ss == sessions[s]
        IN  (ss.pc = "done" /\ ss.outcome = "stopped")
                => /\ ss.buffer # <<>>
                   /\ ss.merged = Strip(Join(ss.buffer, merge_separator))
                   /\ ss.merged # <<>>
                   /\ ~ss.log[Len(ss.log)].stopped
                   /\ ss.provider
                        => /\ Len(ss.calls) = 1
                           /\ ss.calls[1].prompt = ss.merged
                           /\ ss.calls[1].image_urls = ss.image_urls
                   /\ ss.response_text # <<>>
                        => ss.replies = << ss.response_text >>

C14_Witness ==
    \E s \in LiveSessions :
        LET ss == sessions[s]
        IN  /\ ss.pc = "done"
            /\ ss.outcome = "stopped"
            /\ Len(ss.buffer) = 2
            /\ IsCommandMsg(ss.log[Len(ss.log)].msg)
            /\ Len(ss.calls) = 1
            /\ ss.response_text # <<>>
            /\ ss.replies = << ss.response_text >>

(***************************************************************************)
(* C15: a session calls the provider at most once in its whole life,       *)
(* whatever its outcome (timeout, command interrupt, internal failure) and *)
(* whatever the failure of the call: a failed call is not repeated.        *)
(***************************************************************************)
C15_ProviderCalledAtMostOnce ==
    \A s \in LiveSessions :
        LET ss == sessions[s]
        IN  /\ Len(ss.calls) <= 1
            /\ (ss.chat_failed /\ ss.pc = "done") => Len(ss.calls) = 1
            /\ ss.raised => ss.calls = <<>>

C15_Witness ==
    \E s \in LiveSessions :
        /\ sessions[s].pc = "done"
        /\ sessions[s].chat_failed
        /\ Len(sessions[s].calls) = 1
        /\ sessions[s].outcome = "stopped"

(***************************************************************************)
(* C16: a failure of the persona lookup or of the history lookup does not  *)
(* abort the request: the provider is still called, with no system prompt  *)
(* when the persona lookup failed and with an empty context when the       *)
(* history lookup failed, and the reply is still delivered.                *)
(***************************************************************************)
C16_LookupFailureDoesNotAbort ==
    \A s \in LiveSessions :
        LET ss == sessions[s]
        IN  (ss.pc = "done" /\ (ss.persona_failed \/ ss.history_failed))
                => /\ Len(ss.calls) = 1
                   /\ ss.persona_failed => ss.calls[1].system_prompt = NoPrompt
                   /\ ss.history_failed => ss.calls[1].context = <<>>
                   /\ ss.response_text # <<>> => ss.replies = << ss.response_text >>

C16_Witness ==
    \E s \in LiveSessions :
        LET ss == sessions[s]
        IN  /\ ss.pc = "done"
            /\ ss.persona_failed
            /\ ss.history_failed
            /\ Len(ss.calls) = 1
            /\ ss.calls[1].system_prompt = NoPrompt
            /\ ss.calls[1].context = <<>>
            /\ ss.response_text # <<>>
            /\ ss.replies = << ss.response_text >>

(***************************************************************************)
(* C17: a message whose extraction raises, possibly after earlier          *)
(* components of it were read, is treated as empty text with no images: it *)
(* adds no fragment and no image reference, does not reset the timeout,    *)
(* and the session keeps collecting.                                       *)
(***************************************************************************)
C17_MalformedMessageTreatedAsEmpty ==
    [][\A s \in 1..Len(sessions) :
          (Arrival(s) /\ IsMalformedMsg(Arrived(s).msg))
              => /\ sessions'[s].buffer = sessions[s].buffer
                 /\ sessions'[s].image_urls = sessions[s].image_urls
                 /\ sessions'[s].timer = sessions[s].timer
                 /\ sessions'[s].pc = "collecting"]_vars

(***************************************************************************)
(* C19: the persisted history never loses entries: every write after a     *)
(* successful reply stores the history persisted until then extended by    *)
(* exactly the user entry and the assistant entry, also when the history   *)
(* lookup had failed and the request went on with an empty context.        *)
(***************************************************************************)
C19_HistoryWriteExtendsPersisted ==
    [][\A s \in 1..Len(sessions) :
          (sessions[s].pc = "update" /\ sessions'[s].pc = "done"
              /\ sessions'[s].persisted)
              => conv'.history
                   = conv.history
                       \o << Entry("user", sessions[s].merged),
                             Entry("assistant", sessions[s].response_text) >>]_vars

(***************************************************************************)
(* C20: every qualifying (non-empty, non-command) message delivered while  *)
(* its conversation's session is collecting is consumed by exactly one     *)
(* path: it is appended to the buffer and its event is stopped.            *)
(***************************************************************************)
C20_QualifyingMessageConsumedOnce ==
    \A s \in LiveSessions :
        \A i \in 2..Len(sessions[s].log) :
            Qualifying(sessions[s].log[i].msg)
                => sessions[s].log[i].accepted /\ sessions[s].log[i].stopped

(***************************************************************************)
(* C18: every session that is started eventually ends (timeout flush,      *)
(* command interrupt or internal failure) once messages stop arriving,     *)
(* given that the timer runs and the awaited calls return; once it has     *)
(* ended it intercepts the conversation no more, and a qualifying message  *)
(* that finds no session waiting starts a fresh one.                       *)
(***************************************************************************)
Terminated(s) == Len(sessions) >= s /\ sessions[s].pc \in {"done", "closed"}

C18_SessionEventuallyEnds ==
    /\ \A s \in 1..MaxSessions : (Len(sessions) >= s) ~> Terminated(s)
    /\ [](\A s \in 1..Len(sessions) : Terminated(s) => ActiveSession # s)
    /\ [][(/\ ActiveSession = 0
           /\ enable_plugin
           /\ debounce_time > 0
           /\ Len(released') = Len(released) + 1)
              => ~Qualifying(released'[Len(released')].msg)]_vars

C18_Witness ==
    /\ Len(sessions) = 2
    /\ sessions[1].pc = "closed"
    /\ sessions[2].pc = "collecting"
    /\ Len(sessions[2].log) = 1
    /\ sessions[2].age = 0
    /\ sessions[2].timer = debounce_time

====
